---- MODULE Spec2Model ----
(***************************************************************************)
(* ReconBuilder.py: the temporal (constraint) graph of a host tree, a      *)
(* parasite tree and a reconciliation, and its topological ordering.       *)
(*                                                                         *)
(* Python values are modelled as follows.  A node tuple (name, type) is    *)
(* the pair <<name, type>>.  A dict is a function; where the code depends  *)
(* on the dict's iteration order the order is kept beside it as a sequence *)
(* of keys.  A list is a sequence.  None is the string NoneValue; the      *)
(* None of an edge slot is the empty tuple.  A KeyError leaves the         *)
(* program with result.kind = "KeyError".                                  *)
(***************************************************************************)
EXTENDS Integers, Sequences, FiniteSets, TLC

VARIABLES
    host_tree,        \* input of build_temporal_graph
    parasite_tree,    \* input of build_temporal_graph
    reconciliation,   \* input of build_temporal_graph: mapping -> list of events
    temporal_graph,   \* the dict node tuple -> list of node tuples
    graph_keys,       \* list(temporal_graph.keys()): the dict's key order
    pc,               \* position in the program
    unvisited_nodes,  \* topological_order: list
    visiting_nodes,   \* topological_order: list
    ordering_dict,    \* topological_order: dict node tuple -> int
    next_order,       \* topological_order / helper: next unused label
    stack,            \* active calls of topological_order_helper, innermost last
    start_node,       \* argument of the helper call being entered
    hasCycle,         \* value returned by the helper call that just returned
    result            \* what the program returned, or the exception it raised

vars == <<host_tree, parasite_tree, reconciliation, temporal_graph, graph_keys,
          pc, unvisited_nodes, visiting_nodes, ordering_dict, next_order,
          stack, start_node, hasCycle, result>>

----------------------------------------------------------------------------
(* Bounds of the model *)

\* a graph handed directly to topological_order has at most this many edges
MaxEdges == 4

\* a reconciliation has at most this many mappings
MaxMappings == 2

----------------------------------------------------------------------------
(* Python helpers *)

HOST == "HOST"
PARASITE == "PARASITE"
NoneValue == "None"
NoEdge == <<>>
EmptyDict == [x \in {} |-> 0]

Range(s) == {s[i] : i \in 1..Len(s)}

\* list.remove(x): removes the first occurrence
ListRemove(s, x) ==
    LET i == CHOOSE k \in 1..Len(s) : s[k] = x /\ \A j \in 1..(k-1) : s[j] # x
    IN  [k \in 1..(Len(s)-1) |-> IF k < i THEN s[k] ELSE s[k+1]]

\* d[k] = v
DictSet(d, k, v) == [x \in DOMAIN d \cup {k} |-> IF x = k THEN v ELSE d[x]]

Perms(S) == {s \in [1..Cardinality(S) -> S] : \A i, j \in DOMAIN s : i # j => s[i] # s[j]}

----------------------------------------------------------------------------
(* topological_order, lines 167-191, and topological_order_helper, lines   *)
(* 193-229.  A frame of the stack is one active helper call past line 214: *)
(* node is its start_node and i the position of its for loop in            *)
(* temporal_graph[node].  next_order is threaded through every call and    *)
(* return, so one variable holds it.                                       *)

Frame(node) == [node |-> node, i |-> 1]

TopFrame == stack[Len(stack)]

PopFrame == SubSeq(stack, 1, Len(stack) - 1)

\* the child node the innermost for loop is at
child_node == temporal_graph[TopFrame.node][TopFrame.i]

\* reverse_ordering with the reversal left out: the postorder labels stay
reverse_ordering_kept(od, no) == od

\* lines 231-241
reverse_ordering(od, no) == [node_tuple \in DOMAIN od |-> no - od[node_tuple]]

\* lines 177-182: topological_order is entered: its locals
SortStart ==
    /\ pc = "sort"
    /\ next_order' = 1
    /\ unvisited_nodes' = graph_keys
    /\ visiting_nodes' = <<>>
    /\ ordering_dict' = EmptyDict
    /\ pc' = "while"
    /\ UNCHANGED <<host_tree, parasite_tree, reconciliation, temporal_graph, graph_keys,
                   stack, start_node, hasCycle, result>>

\* lines 183-185: pop a start node and call the helper on it
PopStart ==
    /\ pc = "while"
    /\ unvisited_nodes # <<>>
    /\ start_node' = unvisited_nodes[Len(unvisited_nodes)]
    /\ unvisited_nodes' = SubSeq(unvisited_nodes, 1, Len(unvisited_nodes) - 1)
    /\ pc' = "call"
    /\ UNCHANGED <<host_tree, parasite_tree, reconciliation, temporal_graph, graph_keys,
                   visiting_nodes, ordering_dict, next_order, stack, hasCycle, result>>

\* lines 208-209: a node that is no key is a leaf: return False
HelperLeaf ==
    /\ pc = "call"
    /\ start_node \notin DOMAIN temporal_graph
    /\ hasCycle' = FALSE
    /\ pc' = "return"
    /\ UNCHANGED <<host_tree, parasite_tree, reconciliation, temporal_graph, graph_keys,
                   unvisited_nodes, visiting_nodes, ordering_dict, next_order, stack,
                   start_node, result>>

\* lines 212-213: the node is on the current path: return True
HelperCycle ==
    /\ pc = "call"
    /\ start_node \in DOMAIN temporal_graph
    /\ start_node \in Range(visiting_nodes)
    /\ hasCycle' = TRUE
    /\ pc' = "return"
    /\ UNCHANGED <<host_tree, parasite_tree, reconciliation, temporal_graph, graph_keys,
                   unvisited_nodes, visiting_nodes, ordering_dict, next_order, stack,
                   start_node, result>>

\* lines 214-215: mark the node as being visited and start its for loop
HelperVisit ==
    /\ pc = "call"
    /\ start_node \in DOMAIN temporal_graph
    /\ start_node \notin Range(visiting_nodes)
    /\ visiting_nodes' = Append(visiting_nodes, start_node)
    /\ stack' = Append(stack, Frame(start_node))
    /\ pc' = "for"
    /\ UNCHANGED <<host_tree, parasite_tree, reconciliation, temporal_graph, graph_keys,
                   unvisited_nodes, ordering_dict, next_order, start_node, hasCycle, result>>

\* lines 216-219: the child is already labeled: skip it
ForSkip ==
    /\ pc = "for"
    /\ TopFrame.i <= Len(temporal_graph[TopFrame.node])
    /\ child_node \in DOMAIN ordering_dict
    /\ stack' = [stack EXCEPT ![Len(stack)].i = @ + 1]
    /\ UNCHANGED <<host_tree, parasite_tree, reconciliation, temporal_graph, graph_keys,
                   pc, unvisited_nodes, visiting_nodes, ordering_dict, next_order,
                   start_node, hasCycle, result>>

\* ForCall without the test of lines 218-219: a labeled child is explored again
ForCall_labeled ==
    /\ pc = "for"
    /\ TopFrame.i <= Len(temporal_graph[TopFrame.node])
    /\ unvisited_nodes' = IF child_node \in Range(unvisited_nodes)
                            THEN ListRemove(unvisited_nodes, child_node)
                            ELSE unvisited_nodes
    /\ start_node' = child_node
    /\ pc' = "call"
    /\ UNCHANGED <<host_tree, parasite_tree, reconciliation, temporal_graph, graph_keys,
                   visiting_nodes, ordering_dict, next_order, stack, hasCycle, result>>

\* lines 220-223: take the child off unvisited_nodes and call the helper on it
ForCall ==
    /\ pc = "for"
    /\ TopFrame.i <= Len(temporal_graph[TopFrame.node])
    /\ child_node \notin DOMAIN ordering_dict
    /\ unvisited_nodes' = IF child_node \in Range(unvisited_nodes)
                            THEN ListRemove(unvisited_nodes, child_node)
                            ELSE unvisited_nodes
    /\ start_node' = child_node
    /\ pc' = "call"
    /\ UNCHANGED <<host_tree, parasite_tree, reconciliation, temporal_graph, graph_keys,
                   visiting_nodes, ordering_dict, next_order, stack, hasCycle, result>>

\* lines 227-229: all children are done: label the node, return False
HelperLabel ==
    /\ pc = "for"
    /\ TopFrame.i > Len(temporal_graph[TopFrame.node])
    /\ visiting_nodes' = ListRemove(visiting_nodes, TopFrame.node)
    /\ ordering_dict' = DictSet(ordering_dict, TopFrame.node, next_order)
    /\ next_order' = next_order + 1
    /\ stack' = PopFrame
    /\ hasCycle' = FALSE
    /\ pc' = "return"
    /\ UNCHANGED <<host_tree, parasite_tree, reconciliation, temporal_graph, graph_keys,
                   unvisited_nodes, start_node, result>>

\* line 222, 225: a recursive call returned False: the for loop goes on
ReturnToFor ==
    /\ pc = "return"
    /\ stack # <<>>
    /\ ~hasCycle
    /\ stack' = [stack EXCEPT ![Len(stack)].i = @ + 1]
    /\ pc' = "for"
    /\ UNCHANGED <<host_tree, parasite_tree, reconciliation, temporal_graph, graph_keys,
                   unvisited_nodes, visiting_nodes, ordering_dict, next_order,
                   start_node, hasCycle, result>>

\* line 225: a recursive call returned True: return True at once
ReturnCycle ==
    /\ pc = "return"
    /\ stack # <<>>
    /\ hasCycle
    /\ stack' = PopFrame
    /\ UNCHANGED <<host_tree, parasite_tree, reconciliation, temporal_graph, graph_keys,
                   pc, unvisited_nodes, visiting_nodes, ordering_dict, next_order,
                   start_node, hasCycle, result>>

\* lines 185-188: the outermost call returned False: back to the while loop
ReturnToWhile ==
    /\ pc = "return"
    /\ stack = <<>>
    /\ ~hasCycle
    /\ pc' = "while"
    /\ UNCHANGED <<host_tree, parasite_tree, reconciliation, temporal_graph, graph_keys,
                   unvisited_nodes, visiting_nodes, ordering_dict, next_order, stack,
                   start_node, hasCycle, result>>

\* ReturnNone with line 188 left out: the while loop goes on after a cycle
ReturnNone_ignored ==
    /\ pc = "return"
    /\ stack = <<>>
    /\ hasCycle
    /\ pc' = "while"
    /\ UNCHANGED <<host_tree, parasite_tree, reconciliation, temporal_graph, graph_keys,
                   unvisited_nodes, visiting_nodes, ordering_dict, next_order, stack,
                   start_node, hasCycle, result>>

\* line 188: the outermost call returned True: return None
ReturnNone ==
    /\ pc = "return"
    /\ stack = <<>>
    /\ hasCycle
    /\ result' = [kind |-> "None", order |-> EmptyDict]
    /\ pc' = "done"
    /\ UNCHANGED <<host_tree, parasite_tree, reconciliation, temporal_graph, graph_keys,
                   unvisited_nodes, visiting_nodes, ordering_dict, next_order, stack,
                   start_node, hasCycle>>

\* lines 189-191: no node is left: reverse the labels and return the dict
ReturnOrdering ==
    /\ pc = "while"
    /\ unvisited_nodes = <<>>
    /\ ordering_dict' = reverse_ordering(ordering_dict, next_order)
    /\ result' = [kind |-> "order", order |-> ordering_dict']
    /\ pc' = "done"
    /\ UNCHANGED <<host_tree, parasite_tree, reconciliation, temporal_graph, graph_keys,
                   unvisited_nodes, visiting_nodes, next_order, stack,
                   start_node, hasCycle>>

SortNext ==
    \/ SortStart
    \/ PopStart
    \/ HelperLeaf
    \/ HelperCycle
    \/ HelperVisit
    \/ ForSkip
    \/ ForCall
    \/ HelperLabel
    \/ ReturnToFor
    \/ ReturnCycle
    \/ ReturnToWhile
    \/ ReturnNone
    \/ ReturnOrdering

----------------------------------------------------------------------------
(* topological_order on every graph of the bounded universe: three nodes   *)
(* that may be keys, one node that never is, successor lists without       *)
(* repetition, every order of the keys.                                    *)

KeyNodes == {<<"m0", HOST>>, <<"m2", HOST>>, <<"n0", PARASITE>>}

LeafNodes == {<<"m1", HOST>>}

SuccLists ==
    {s \in UNION {[1..n -> KeyNodes \cup LeafNodes] : n \in 0..MaxEdges} :
        \A i, j \in DOMAIN s : i # j => s[i] # s[j]}

RECURSIVE SumLen(_, _)
SumLen(g, K) ==
    IF K = {} THEN 0
    ELSE LET k == CHOOSE x \in K : TRUE IN Len(g[k]) + SumLen(g, K \ {k})

Graphs ==
    {g \in UNION {[K -> SuccLists] : K \in SUBSET KeyNodes} :
        SumLen(g, DOMAIN g) <= MaxEdges}

NoInput == <<>>

Pending == [kind |-> "pending", order |-> EmptyDict]

\* the locals of topological_order before it is entered
NoLocals ==
    /\ next_order = 0
    /\ unvisited_nodes = <<>>
    /\ visiting_nodes = <<>>
    /\ ordering_dict = EmptyDict
    /\ stack = <<>>
    /\ start_node = <<NoneValue, NoneValue>>
    /\ hasCycle = FALSE
    /\ result = Pending

SortInit ==
    /\ host_tree = NoInput
    /\ parasite_tree = NoInput
    /\ reconciliation = EmptyDict
    /\ temporal_graph \in Graphs
    /\ graph_keys \in Perms(DOMAIN temporal_graph)
    /\ pc = "sort"
    /\ NoLocals

SortSpec == SortInit /\ [][SortNext]_vars

\* the program runs to its end: nothing else is scheduled
SortFairSpec == SortSpec /\ WF_vars(SortNext)

----------------------------------------------------------------------------
(* The example trees, lines 17-28.  A tree dict is the sequence of its     *)
(* items in the dict's order; the edge name 'hTop' is the tuple <<"hTop">>. *)

Edge(edge_name, top, bottom, edge1, edge2) ==
    [edge_name |-> edge_name, edge_four_tuple |-> <<top, bottom, edge1, edge2>>]

host_tree_example ==
    << Edge(<<"hTop">>, "Top", "m0", <<"m0", "m1">>, <<"m0", "m2">>),
       Edge(<<"m0", "m1">>, "m0", "m1", NoEdge, NoEdge),
       Edge(<<"m0", "m2">>, "m0", "m2", <<"m2", "m3">>, <<"m2", "m4">>),
       Edge(<<"m2", "m3">>, "m2", "m3", NoEdge, NoEdge),
       Edge(<<"m2", "m4">>, "m2", "m4", NoEdge, NoEdge) >>

parasite_tree_example ==
    << Edge(<<"pTop">>, "Top", "n0", <<"n0", "n1">>, <<"n0", "n2">>),
       Edge(<<"n0", "n1">>, "n0", "n1", NoEdge, NoEdge),
       Edge(<<"n0", "n2">>, "n0", "n2", <<"n2", "n3">>, <<"n2", "n4">>),
       Edge(<<"n2", "n3">>, "n2", "n3", NoEdge, NoEdge),
       Edge(<<"n2", "n4">>, "n2", "n4", NoEdge, NoEdge) >>

\* lines 260-265
top_node(edge_four_tuple) == edge_four_tuple[1]

\* lines 267-272
bottom_node(edge_four_tuple) == edge_four_tuple[2]

\* lines 274-280
is_leaf_edge(edge_four_tuple) == edge_four_tuple[4] = NoEdge

----------------------------------------------------------------------------
(* build_formatted_tree, lines 52-81.  The result is the dict and the      *)
(* order of its keys.                                                      *)

TreeTypeOf(tree) ==
    IF \E i \in 1..Len(tree) : tree[i].edge_name = <<"pTop">> THEN PARASITE ELSE HOST

\* formatted_tree[k] = v on a dict kept with its key order
OrderedSet(d, k, v) ==
    [dict |-> DictSet(d.dict, k, v),
     keys |-> IF k \in DOMAIN d.dict THEN d.keys ELSE Append(d.keys, k)]

RECURSIVE FormatFrom(_, _, _, _)
FormatFrom(tree, tree_type, i, formatted_tree) ==
    IF i > Len(tree) THEN formatted_tree
    ELSE LET edge_four_tuple == tree[i].edge_four_tuple
         IN  IF is_leaf_edge(edge_four_tuple)
               THEN FormatFrom(tree, tree_type, i + 1, formatted_tree)
               ELSE FormatFrom(tree, tree_type, i + 1,
                        OrderedSet(formatted_tree,
                                   <<bottom_node(edge_four_tuple), tree_type>>,
                                   << <<edge_four_tuple[3][2], tree_type>>,
                                      <<edge_four_tuple[4][2], tree_type>> >>))

build_formatted_tree(tree) ==
    FormatFrom(tree, TreeTypeOf(tree), 1, [dict |-> EmptyDict, keys |-> <<>>])

----------------------------------------------------------------------------
(* createParentDict, lines 83-99: one dict for both trees, the parasite    *)
(* tree's entries written last.                                            *)

RECURSIVE ParentFrom(_, _, _)
ParentFrom(tree, i, parent_dict) ==
    IF i > Len(tree) THEN parent_dict
    ELSE ParentFrom(tree, i + 1,
             DictSet(parent_dict, bottom_node(tree[i].edge_four_tuple),
                                  top_node(tree[i].edge_four_tuple)))

createParentDict(H, P) == ParentFrom(P, 1, ParentFrom(H, 1, EmptyDict))

----------------------------------------------------------------------------
(* uniquify, lines 101-109: the keys of a dict, in the order of their      *)
(* first insertion.                                                        *)

RECURSIVE uniquify(_)
uniquify(elements) ==
    IF elements = <<>> THEN <<>>
    ELSE LET front == uniquify(SubSeq(elements, 1, Len(elements) - 1))
             last == elements[Len(elements)]
         IN  IF last \in Range(front) THEN front ELSE Append(front, last)

----------------------------------------------------------------------------
(* build_temporal_graph, lines 111-164.  The state of the loop is the      *)
(* graph built so far and whether a KeyError was raised.                   *)

\* GraphAppend as temporal_graph.setdefault(key, []).append(value): no KeyError
GraphAppend_setdefault(st, key, value) ==
    IF st.err THEN st
    ELSE [err |-> FALSE,
          dict |-> DictSet(st.dict, key,
                           Append(IF key \in DOMAIN st.dict THEN st.dict[key] ELSE <<>>,
                                  value))]

\* temporal_graph[key].append(value): a KeyError when key is no key of the graph
GraphAppend(st, key, value) ==
    IF st.err \/ key \notin DOMAIN st.dict
      THEN [err |-> TRUE, dict |-> st.dict]
      ELSE [err |-> FALSE, dict |-> [st.dict EXCEPT ![key] = Append(@, value)]]

KeyError(st) == [err |-> TRUE, dict |-> st.dict]

\* FirstRelation added for Duplication only: the Transfer is forgotten
FirstRelation_duplication(st, event_type, parasite, host) ==
    IF st.err \/ event_type # "D" THEN st
    ELSE IF <<parasite, PARASITE>> \notin DOMAIN st.dict
      THEN [err |-> TRUE, dict |-> st.dict]
      ELSE [err |-> FALSE,
            dict |-> [st.dict EXCEPT ![<<parasite, PARASITE>>] = Append(@, <<host, HOST>>)]]

\* FirstRelation without the test of line 144: added for leaf mappings too
FirstRelation_always(st, event_type, parasite, host) ==
    IF st.err \/ <<parasite, PARASITE>> \notin DOMAIN st.dict
      THEN [err |-> TRUE, dict |-> st.dict]
      ELSE [err |-> FALSE,
            dict |-> [st.dict EXCEPT ![<<parasite, PARASITE>>] = Append(@, <<host, HOST>>)]]

\* lines 144-145: the first relation, for a mapping that is no leaf mapping
FirstRelation(st, event_type, parasite, host) ==
    IF event_type # "C"
      THEN GraphAppend(st, <<parasite, PARASITE>>, <<host, HOST>>)
      ELSE st

\* lines 146-148: the second relation, for a mapping not onto the host root
SecondRelation(st, host_parent, parasite) ==
    IF host_parent # "Top"
      THEN GraphAppend(st, <<host_parent, HOST>>, <<parasite, PARASITE>>)
      ELSE st

\* lines 150-159: the two relations of a transfer
TransferRelations(st, parent, recon, event_tuple, parasite, host) ==
    IF event_tuple[1] # "T" THEN st
    ELSE LET right_child_mapping == event_tuple[3]
             right_child_parasite == right_child_mapping[1]
             right_child_host == right_child_mapping[2]
         IN  IF right_child_host \notin DOMAIN parent THEN KeyError(st)
             ELSE LET st1 == GraphAppend(st, <<parent[right_child_host], HOST>>,
                                             <<parasite, PARASITE>>)
                  IN  IF \/ right_child_mapping \notin DOMAIN recon
                         \/ recon[right_child_mapping][1][1] # "C"
                        THEN GraphAppend(st1, <<right_child_parasite, PARASITE>>,
                                              <<host, HOST>>)
                        ELSE st1

\* MappingStep without the test of lines 141-142: a Loss is treated like the rest
MappingStep_loss(st, parent, recon, node_mapping) ==
    LET parasite == node_mapping[1]
        host == node_mapping[2]
    IN  IF st.err THEN st
        ELSE IF host \notin DOMAIN parent THEN [err |-> TRUE, dict |-> st.dict]
        ELSE LET event_tuple == recon[node_mapping][1]
                 first == IF event_tuple[1] # "C"
                            THEN GraphAppend(st, <<parasite, PARASITE>>, <<host, HOST>>)
                            ELSE st
             IN  TransferRelations(SecondRelation(first, parent[host], parasite),
                                   parent, recon, event_tuple, parasite, host)

\* lines 134-159: the body of the loop for one node mapping
MappingStep(st, parent, recon, node_mapping) ==
    LET parasite == node_mapping[1]
        host == node_mapping[2]
    IN  IF st.err THEN st
        ELSE IF host \notin DOMAIN parent THEN KeyError(st)
        ELSE LET host_parent == parent[host]
                 event_tuple == recon[node_mapping][1]
                 event_type == event_tuple[1]
             IN  IF event_type = "L" THEN st
                 ELSE TransferRelations(
                          SecondRelation(
                              FirstRelation(st, event_type, parasite, host),
                              host_parent, parasite),
                          parent, recon, event_tuple, parasite, host)

\* lines 133-159: the loop, over the mappings in the order the dict yields them
RECURSIVE MappingLoop(_, _, _, _, _)
MappingLoop(st, parent, recon, mappings, i) ==
    IF i > Len(mappings) THEN st
    ELSE MappingLoop(MappingStep(st, parent, recon, mappings[i]),
                     parent, recon, mappings, i + 1)

\* lines 124-164.  mappings is list(reconciliation.keys()).
build_temporal_graph(H, P, recon, mappings) ==
    LET parent == createParentDict(H, P)
        temporal_host_tree == build_formatted_tree(H)
        temporal_parasite_tree == build_formatted_tree(P)
        \* lines 130-131: dict.update keeps the host keys first
        keys == temporal_host_tree.keys \o
                  SelectSeq(temporal_parasite_tree.keys,
                            LAMBDA k : k \notin DOMAIN temporal_host_tree.dict)
        combined == [k \in Range(keys) |->
                        IF k \in DOMAIN temporal_parasite_tree.dict
                          THEN temporal_parasite_tree.dict[k]
                          ELSE temporal_host_tree.dict[k]]
        st == MappingLoop([err |-> FALSE, dict |-> combined], parent, recon, mappings, 1)
    IN  [err |-> st.err,
         dict |-> [node_tuple \in DOMAIN st.dict |-> uniquify(st.dict[node_tuple])],
         keys |-> keys]

\* build_temporal_graph raises a KeyError: the program ends with it
BuildRaises ==
    /\ pc = "build"
    /\ \E mappings \in Perms(DOMAIN reconciliation) :
          build_temporal_graph(host_tree, parasite_tree, reconciliation, mappings).err
    /\ result' = [kind |-> "KeyError", order |-> EmptyDict]
    /\ pc' = "done"
    /\ UNCHANGED <<host_tree, parasite_tree, reconciliation, temporal_graph, graph_keys,
                   unvisited_nodes, visiting_nodes, ordering_dict, next_order, stack,
                   start_node, hasCycle>>

\* lines 284-285: build_temporal_graph returns T and topological_order(T) is called
BuildReturns ==
    /\ pc = "build"
    /\ \E mappings \in Perms(DOMAIN reconciliation) :
          LET T == build_temporal_graph(host_tree, parasite_tree, reconciliation, mappings)
          IN  /\ ~T.err
              /\ temporal_graph' = T.dict
              /\ graph_keys' = T.keys
    /\ pc' = "sort"
    /\ UNCHANGED <<host_tree, parasite_tree, reconciliation,
                   unvisited_nodes, visiting_nodes, ordering_dict, next_order, stack,
                   start_node, hasCycle, result>>

----------------------------------------------------------------------------
(* The inputs of build_temporal_graph in the bounded universe: the example *)
(* trees, and the example host tree with a parasite tree whose leaf n1 is  *)
(* named m1 like a host node; reconciliations of at most MaxMappings       *)
(* mappings of the root, a leaf or an internal node of the parasite tree   *)
(* onto the root or a leaf of the host tree, of an unknown parasite node   *)
(* onto a host leaf, of the parasite root onto an unknown host node.       *)

parasite_tree_collide ==
    << Edge(<<"pTop">>, "Top", "n0", <<"n0", "m1">>, <<"n0", "n2">>),
       Edge(<<"n0", "m1">>, "n0", "m1", NoEdge, NoEdge),
       Edge(<<"n0", "n2">>, "n0", "n2", <<"n2", "n3">>, <<"n2", "n4">>),
       Edge(<<"n2", "n3">>, "n2", "n3", NoEdge, NoEdge),
       Edge(<<"n2", "n4">>, "n2", "n4", NoEdge, NoEdge) >>

Unknown == "x"

NullMapping == <<NoneValue, NoneValue>>

TreeInputs ==
    { [H |-> host_tree_example, P |-> parasite_tree_example,
       mappings |-> ({"n0", "n1", "n2"} \X {"m0", "m1"})
                      \cup {<<Unknown, "m1">>, <<"n0", Unknown>>}],
      [H |-> host_tree_example, P |-> parasite_tree_collide,
       mappings |-> ({"n0", "m1", "n2"} \X {"m0", "m1"})
                      \cup {<<Unknown, "m1">>, <<"n0", Unknown>>}] }

\* the right child mappings of the transfers
TransferredChildren ==
    {<<"n2", "m0">>, <<"n2", "m1">>, <<Unknown, "m1">>, <<"n2", Unknown>>}

EventTuples ==
    { <<"L", <<"n2", "m1">>, NullMapping>>,
      <<"C", NullMapping, NullMapping>>,
      <<"C", <<"n1", "m1">>, <<"n2", "m1">> >>,
      <<"D", <<"n1", "m1">>, <<"n2", "m1">> >> }
    \cup {<<"T", <<"n1", "m1">>, rc>> : rc \in TransferredChildren}

Reconciliations(in) ==
    UNION {[K -> {<<e>> : e \in EventTuples}] :
              K \in {K \in SUBSET in.mappings : Cardinality(K) <= MaxMappings}}

ReconInit ==
    /\ \E in \in TreeInputs :
          /\ host_tree = in.H
          /\ parasite_tree = in.P
          /\ reconciliation \in Reconciliations(in)
    /\ temporal_graph = EmptyDict
    /\ graph_keys = <<>>
    /\ pc = "build"
    /\ NoLocals

ReconNext ==
    \/ BuildRaises
    \/ BuildReturns
    \/ SortNext

Spec == ReconInit /\ [][ReconNext]_vars

----------------------------------------------------------------------------
(* Graph notions the properties are stated with *)

\* the successors of n that are keys of g
KeySucc(g, n) == IF n \in DOMAIN g THEN Range(g[n]) \cap DOMAIN g ELSE {}

RECURSIVE Closure(_, _)
Closure(g, S) ==
    LET T == S \cup UNION {KeySucc(g, x) : x \in S}
    IN  IF T = S THEN S ELSE Closure(g, T)

\* g has a directed cycle among its keys (a self-loop included)
Cyclic(g) == \E n \in DOMAIN g : n \in Closure(g, KeySucc(g, n))

Returned == pc = "done" /\ result.kind # "KeyError"

\* build_temporal_graph has just returned or raised
JustBuilt == pc = "sort" \/ (pc = "done" /\ result.kind = "KeyError")

BuildFailed == pc = "done" /\ result.kind = "KeyError"

GraphReturned == pc = "sort"

\* the edges of a graph
Edges(g) == UNION {{<<u, v>> : v \in Range(g[u])} : u \in DOMAIN g}

HasEdge(u, v) == <<u, v>> \in Edges(temporal_graph)

\* the names of the nodes of a tree
NodesOf(tree) == {tree[i].edge_four_tuple[2] : i \in 1..Len(tree)}

\* the parent of a host node in the host tree alone
HostTreeParent(h) ==
    LET i == CHOOSE k \in 1..Len(host_tree) : host_tree[k].edge_four_tuple[2] = h
    IN  host_tree[i].edge_four_tuple[1]

\* the parent index the builder works with
ParentIndex == createParentDict(host_tree, parasite_tree)

EventOf(m) == reconciliation[m][1]

\* a Cospeciation event with both child mappings null
IsLeafEvent(e) == e[1] = "C" /\ e[2] = NullMapping /\ e[3] = NullMapping

\* the reconciliation with the mapping m removed
Without(m) == [k \in DOMAIN reconciliation \ {m} |-> reconciliation[k]]

ExampleTrees == host_tree = host_tree_example /\ parasite_tree = parasite_tree_example

----------------------------------------------------------------------------
(* Properties of topological_order *)

\* C1: on an acyclic graph topological_order returns a dict whose keys are
\* exactly the keys of the graph, whose values are a bijection onto 1..N, N the
\* number of keys, and with order[u] < order[v] for every edge u -> v between keys.
C1_AcyclicOrdering ==
    (Returned /\ ~Cyclic(temporal_graph)) =>
        /\ result.kind = "order"
        /\ DOMAIN result.order = DOMAIN temporal_graph
        /\ {result.order[n] : n \in DOMAIN result.order}
              = 1..Cardinality(DOMAIN temporal_graph)
        /\ \A u, v \in DOMAIN result.order : u # v => result.order[u] # result.order[v]
        /\ \A u \in DOMAIN temporal_graph : \A v \in KeySucc(temporal_graph, u) :
              result.order[u] < result.order[v]

\* C1 witness: an ordering was returned for an acyclic graph of three keys in
\* which one key has a key and a leaf as successors and another key has the
\* same key as successor (the child is labeled when it is met again).
C1_Witness ==
    /\ Returned
    /\ ~Cyclic(temporal_graph)
    /\ result.kind = "order"
    /\ Cardinality(DOMAIN temporal_graph) = 3
    /\ \E u, v, w \in DOMAIN temporal_graph :
          /\ u # v /\ u # w /\ v # w
          /\ v \in Range(temporal_graph[u])
          /\ v \in Range(temporal_graph[w])
          /\ Range(temporal_graph[u]) \cap LeafNodes # {}

\* C2: on a graph with a cycle among its keys topological_order returns None,
\* never an ordering, whatever the order of the keys.
C2_CycleReturnsNone ==
    (Returned /\ Cyclic(temporal_graph)) => result.kind = "None"

\* C2 witness: None was returned for a graph whose cycle does not go through
\* the first start node: that node was labeled before the cycle was found.
C2_Witness ==
    /\ Returned
    /\ Cyclic(temporal_graph)
    /\ result.kind = "None"
    /\ graph_keys[Len(graph_keys)] \in DOMAIN ordering_dict

\* C10: topological_order terminates on every graph, with an ordering or with
\* None, and the helper never explores a node that is on the current path or
\* already labeled.
C10_Terminates ==
    /\ <>(pc = "done" /\ result.kind \in {"order", "None"})
    /\ [][HelperVisit =>
            start_node \notin Range(visiting_nodes) \cup DOMAIN ordering_dict]_vars

\* C10 witness: the sort ended on a graph of three keys and three edges, two
\* of them to the same key.
C10_Witness ==
    /\ pc = "done"
    /\ result.kind \in {"order", "None"}
    /\ Cardinality(DOMAIN temporal_graph) = 3
    /\ \E u, w \in DOMAIN temporal_graph : \E v \in DOMAIN temporal_graph :
          /\ u # w
          /\ v \in Range(temporal_graph[u])
          /\ v \in Range(temporal_graph[w])
          /\ Len(temporal_graph[u]) + Len(temporal_graph[w]) = 3

----------------------------------------------------------------------------
(* Properties of build_temporal_graph *)

\* C3: on the example trees, a reconciliation with a Transfer of n0 onto m1
\* whose right child is mapped onto m0, the ancestor of m1, and with that
\* child mapped as a Duplication (n2 -> m0 closes the cycle m0 -> n0 -> n2 ->
\* m0), ends with the sorter's None, not with a lookup error or an ordering.
C3_AncestorTransferReturnsNone ==
    ( /\ pc = "done"
      /\ ExampleTrees
      /\ DOMAIN reconciliation = {<<"n0", "m1">>, <<"n2", "m0">>}
      /\ EventOf(<<"n0", "m1">>) = <<"T", <<"n1", "m1">>, <<"n2", "m0">> >>
      /\ EventOf(<<"n2", "m0">>)[1] = "D" )
    => result.kind = "None"

C5_TransferEdgeUnconditional ==
    ( /\ JustBuilt
      /\ ExampleTrees
      /\ \E m \in DOMAIN reconciliation :
            /\ DOMAIN reconciliation = {m}
            /\ EventOf(m)[1] = "T"
            /\ m[1] \in {"n0", "n2"}
            /\ m[2] \in NodesOf(host_tree)
            /\ EventOf(m)[3][1] \in {"n0", "n2"}
            /\ EventOf(m)[3][2] \in NodesOf(host_tree) )
    => /\ GraphReturned
       /\ \A m \in DOMAIN reconciliation :
             HasEdge(<<HostTreeParent(EventOf(m)[3][2]), HOST>>, <<m[1], PARASITE>>)

\* C6: for a non-Loss mapping (p, h), h not the host root, the returned graph
\* has the edge (hp, HOST) -> (p, PARASITE), hp the parent of h in the host
\* tree, also when a parasite node has the name of h.  Stated for a
\* reconciliation of that one mapping, a Cospeciation with null children of an
\* internal parasite node onto a host node, so that nothing else can fail.
C6_SecondRelationHostParent ==
    ( /\ JustBuilt
      /\ \E m \in DOMAIN reconciliation :
            /\ DOMAIN reconciliation = {m}
            /\ IsLeafEvent(EventOf(m))
            /\ m[1] \in {"n0", "n2"}
            /\ m[2] \in NodesOf(host_tree)
            /\ HostTreeParent(m[2]) # "Top" )
    => /\ GraphReturned
       /\ \A m \in DOMAIN reconciliation :
             HasEdge(<<HostTreeParent(m[2]), HOST>>, <<m[1], PARASITE>>)

\* C7: a Loss mapping whose nodes are in the trees changes nothing:
\* build_temporal_graph on the reconciliation without it raises exactly when
\* it raises with it, and otherwise returns the same keys with the same
\* successor sets, also when the mapping is the right child of a Transfer.
C7_LossAddsNothing ==
    JustBuilt =>
        \A m \in DOMAIN reconciliation :
            ( /\ EventOf(m)[1] = "L"
              /\ m[1] \in NodesOf(parasite_tree)
              /\ m[2] \in NodesOf(host_tree) )
            => \A mappings \in Perms(DOMAIN reconciliation \ {m}) :
                  LET T == build_temporal_graph(host_tree, parasite_tree,
                                                Without(m), mappings)
                  IN  /\ T.err <=> BuildFailed
                      /\ GraphReturned =>
                            /\ DOMAIN T.dict = DOMAIN temporal_graph
                            /\ \A k \in DOMAIN T.dict :
                                  Range(T.dict[k]) = Range(temporal_graph[k])

\* C7 witness: a graph was returned for a reconciliation in which a Loss
\* mapping with known nodes is the right child of a Transfer.
C7_Witness ==
    /\ GraphReturned
    /\ \E m, t \in DOMAIN reconciliation :
          /\ EventOf(m)[1] = "L"
          /\ m[1] \in NodesOf(parasite_tree)
          /\ m[2] \in NodesOf(host_tree)
          /\ EventOf(t)[1] = "T"
          /\ EventOf(t)[3] = m

\* C8: a Cospeciation mapping (p, h) with both children null adds the edge
\* (parentOf(h), HOST) -> (p, PARASITE) when parentOf(h), read from the parent
\* index, is not the root marker, and adds no other edge: the returned graph
\* has that edge, and every edge it has beyond the graph of the reconciliation
\* without the mapping is that edge.
C8_LeafMappingSecondRelationOnly ==
    GraphReturned =>
        \A m \in DOMAIN reconciliation :
            IsLeafEvent(EventOf(m)) =>
                LET second == <<<<ParentIndex[m[2]], HOST>>, <<m[1], PARASITE>>>>
                    allowed == IF ParentIndex[m[2]] # "Top" THEN {second} ELSE {}
                IN  /\ allowed \subseteq Edges(temporal_graph)
                    /\ \A mappings \in Perms(DOMAIN reconciliation \ {m}) :
                          LET T == build_temporal_graph(host_tree, parasite_tree,
                                                        Without(m), mappings)
                          IN  ~T.err =>
                                 Edges(temporal_graph) \ Edges(T.dict) \subseteq allowed

\* C8 witness: a graph was returned for a leaf mapping onto a host node that
\* is not the root, whose edge is there, and a leaf mapping onto the host root.
C8_Witness ==
    /\ GraphReturned
    /\ \E m, r \in DOMAIN reconciliation :
          /\ IsLeafEvent(EventOf(m))
          /\ ParentIndex[m[2]] # "Top"
          /\ HasEdge(<<ParentIndex[m[2]], HOST>>, <<m[1], PARASITE>>)
          /\ IsLeafEvent(EventOf(r))
          /\ ParentIndex[r[2]] = "Top"

\* a name that occurs in neither tree
IsUnknown(name) == name \notin NodesOf(host_tree) \cup NodesOf(parasite_tree)

\* C9 as stated: a reconciliation with a mapping, or a Transfer right child,
\* naming a node that is in neither tree makes build_temporal_graph raise a
\* lookup error, whatever the event.
C9_UnknownNodeRaises ==
    JustBuilt =>
        \A m \in DOMAIN reconciliation :
            ( \/ IsUnknown(m[1])
              \/ IsUnknown(m[2])
              \/ /\ EventOf(m)[1] = "T"
                 /\ (IsUnknown(EventOf(m)[3][1]) \/ IsUnknown(EventOf(m)[3][2])) )
            => BuildFailed

\* C9 amended: build_temporal_graph raises a lookup error when a mapping
\* names a host node that is in neither tree, whatever its event; when a
\* mapping whose event is Duplication or Transfer names a parasite node that is
\* in neither tree; when the right child of a Transfer names a host node that
\* is in neither tree; and when it names a parasite node that is in neither
\* tree, unless that child mapping is in the reconciliation as a Cospeciation.
C9_UnknownNodeRaisesWhenLookedUp ==
    JustBuilt =>
        \A m \in DOMAIN reconciliation :
            ( \/ IsUnknown(m[2])
              \/ IsUnknown(m[1]) /\ EventOf(m)[1] \in {"D", "T"}
              \/ /\ EventOf(m)[1] = "T"
                 /\ \/ IsUnknown(EventOf(m)[3][2])
                    \/ /\ IsUnknown(EventOf(m)[3][1])
                       /\ \/ EventOf(m)[3] \notin DOMAIN reconciliation
                          \/ EventOf(EventOf(m)[3])[1] # "C" )
            => BuildFailed

\* C9 witness: the build raised for a reconciliation whose only faults are a
\* Duplication of an unknown parasite node, or the unknown parasite node of a
\* Transfer's right child.
C9_Witness ==
    /\ BuildFailed
    /\ ExampleTrees
    /\ \E m \in DOMAIN reconciliation :
          /\ DOMAIN reconciliation = {m}
          /\ m[2] = "m1"
          /\ \/ IsUnknown(m[1]) /\ EventOf(m)[1] = "D"
             \/ /\ m[1] = "n0"
                /\ EventOf(m)[1] = "T"
                /\ IsUnknown(EventOf(m)[3][1])
                /\ EventOf(m)[3][2] = "m1"

====
